---- MODULE Spec2Model ----
(***************************************************************************)
(* Model of src/main.py: the POST /upload handler upload_log of the Log    *)
(* Analyzer API.  One coroutine per request; each request owns one         *)
(* UploadFile whose .file is the stream that is probed and closed.         *)
(*                                                                         *)
(* Text is modelled as a sequence of one-character strings, so that        *)
(* str.lower(), str.endswith() and int() are computed, not assumed.        *)
(*                                                                         *)
(* The handler awaits what file.file.seek, .tell and .close return.  What  *)
(* those return is decided by the object the handler is given: the file    *)
(* behind Starlette's UploadFile is a plain SpooledTemporaryFile, whose    *)
(* methods return an int or None (awaiting either raises TypeError); a     *)
(* file object with coroutine methods returns awaitables.  Both kinds are  *)
(* explored (stream field awaitable).                                      *)
(*                                                                         *)
(* Requests interleave statement by statement, which includes every        *)
(* interleaving the awaits of the coroutine allow.                         *)
(***************************************************************************)
EXTENDS Integers, Sequences, FiniteSets, TLC

VARIABLES
    MAX_FILE_SIZE,        \* module global, main.py:11
    ALLOWED_EXTENSIONS,   \* module global, main.py:12
    frame,                \* frame[r]: the locals and position of request r's coroutine
    streams,              \* streams[s]: the file object behind an UploadFile
    request0              \* history: the request as it arrived (frame and stream)

vars == <<MAX_FILE_SIZE, ALLOWED_EXTENSIONS, frame, streams, request0>>

-----------------------------------------------------------------------------
(* Bounds of the exploration *)

NumRequests == 2      \* concurrent requests
Slack == 1            \* sizes and lengths explored within Slack of 0 and of the limit

Requests == 1..NumRequests

-----------------------------------------------------------------------------
(* Text *)

UpperLetters == <<"A","B","C","D","E","F","G","H","I","J","K","L","M",
                  "N","O","P","Q","R","S","T","U","V","W","X","Y","Z">>
LowerLetters == <<"a","b","c","d","e","f","g","h","i","j","k","l","m",
                  "n","o","p","q","r","s","t","u","v","w","x","y","z">>

\* faulty variant of LowerChar: the character is left as it is
LowerCharKeepsCase(c) == c

\* str.lower() on one character
LowerChar(c) ==
    IF \E i \in 1..Len(UpperLetters) : UpperLetters[i] = c
    THEN LowerLetters[CHOOSE i \in 1..Len(UpperLetters) : UpperLetters[i] = c]
    ELSE c

\* str.lower()
Lower(s) == [i \in 1..Len(s) |-> LowerChar(s[i])]

\* faulty variant of EndsWith: the suffix may occur anywhere in the text
EndsWithAnywhere(s, suf) ==
    \E k \in 0..(Len(s) - Len(suf)) : SubSeq(s, k + 1, k + Len(suf)) = suf

\* str.endswith(suf) for one suffix
EndsWith(s, suf) ==
    /\ Len(suf) <= Len(s)
    /\ SubSeq(s, Len(s) - Len(suf) + 1, Len(s)) = suf

\* str.endswith(tuple): any member of the tuple is a suffix
EndsWithAny(s, sufs) == \E i \in 1..Len(sufs) : EndsWith(s, sufs[i])

DigitChars == <<"0","1","2","3","4","5","6","7","8","9">>

DigitValue(c) == (CHOOSE i \in 1..10 : DigitChars[i] = c) - 1

RECURSIVE ParseDigits(_)
ParseDigits(t) ==
    IF t = <<>> THEN 0
    ELSE 10 * ParseDigits(SubSeq(t, 1, Len(t) - 1)) + DigitValue(t[Len(t)])

\* int(text) on an optionally signed decimal numeral
ParseInt(t) ==
    IF t # <<>> /\ t[1] = "-" THEN 0 - ParseDigits(Tail(t)) ELSE ParseDigits(t)

RECURSIVE DigitsOf(_)
DigitsOf(n) ==
    IF n < 10 THEN <<DigitChars[n + 1]>>
    ELSE Append(DigitsOf(n \div 10), DigitChars[(n % 10) + 1])

\* the decimal numeral a client sends for n in a content-length header
Numeral(n) == IF n < 0 THEN <<"-">> \o DigitsOf(0 - n) ELSE DigitsOf(n)

-----------------------------------------------------------------------------
(* Policy: the values the module globals are bound to at import *)

MaxFileSizeValue == 20 * 1024 * 1024

AllowedExtensionsValue ==
    << <<".","t","x","t">>, <<".","l","o","g">>,
       <<".","l","o","g","f","i","l","e">>, <<".","d","a","t","a">> >>

HTTP_201_CREATED == 201
HTTP_400_BAD_REQUEST == 400
HTTP_413_REQUEST_ENTITY_TOO_LARGE == 413

-----------------------------------------------------------------------------
(* Exceptions and responses *)

NoExc == [type |-> "none", status_code |-> 0, site |-> "none"]

\* HTTPException(status_code=...); site names the raise statement
HTTPException(code, where) == [type |-> "HTTPException", status_code |-> code, site |-> where]

\* any other exception; site names the call that raised it
Fault(kind, where) == [type |-> kind, status_code |-> 0, site |-> where]

NoResponse == [filename |-> <<>>, Size_in_Bytes |-> 0]

-----------------------------------------------------------------------------
(* The stream file.file *)

\* a call made on the stream, noted in the order the calls are made
Called(s, op, who) == [s EXCEPT !.log = Append(@, [op |-> op, by |-> who])]

\* seek(0, 2): the position becomes the end of the data
SeekEndEffect(s) == [s EXCEPT !.pos = s.size]

\* seek(0): the position becomes the start of the data
SeekStartEffect(s) == [s EXCEPT !.pos = 0]

\* tell(): the position is read, nothing moves
TellEffect(s) == s

\* close(): the file is closed (closing a closed file does nothing more)
CloseEffect(s) == [s EXCEPT !.closed = TRUE]

\* `await <call>` on the stream, the k-th probing call of the request.
\* The call is made first; what it returns is awaited.  A file object whose
\* methods are plain functions (the SpooledTemporaryFile behind Starlette's
\* UploadFile.file) hands back an int or None, and awaiting that raises
\* TypeError after the call has taken effect.
\*   f, s     the frame and the stream before the call
\*   op, k    the call's name and its index among the probing calls
\*   done     the stream after the call's effect
\*   next     the frame after a normal return of the await
AwaitCall(f, s, op, k, done, next) ==
    LET called == Called(s, op, f.id)
        raised(e, st) == [f |-> [f EXCEPT !.exc = e, !.pc = "L103"], s |-> st]
    IN  IF s.closed
        THEN raised(Fault("ValueError", op), called)
        ELSE IF f.env.what = "fault" /\ f.env.at = k
        THEN raised(Fault("OSError", op), called)
        ELSE IF ~s.awaitable
        THEN raised(Fault("TypeError", op), [done EXCEPT !.log = called.log])
        ELSE IF f.env.what = "cancel" /\ f.env.at = k
        THEN raised(Fault("CancelledError", op),
                    IF f.env.applied THEN [done EXCEPT !.log = called.log] ELSE called)
        ELSE [f |-> next, s |-> [done EXCEPT !.log = called.log]]

-----------------------------------------------------------------------------
(* upload_log, statement by statement.  Each operator maps the frame f of *)
(* one request and the stream s it names to the pair after the statement. *)

\* faulty variant of StreamOf: every request uses the same file object
StreamOfShared(f) == 1

\* file.file: the stream of the request's own UploadFile
StreamOf(f) == f.file

\* the condition of line 53
ExtensionRejected(f) ==
    \/ f.filename.isNone
    \/ f.filename.s = <<>>
    \/ ~EndsWithAny(Lower(f.filename.s), ALLOWED_EXTENSIONS)

\* lines 53-59: the extension check, outside the try block
DoCheckExtension(f, s) ==
    IF ExtensionRejected(f)
    THEN [f |-> [f EXCEPT !.pc = "done",
                          !.outcome = HTTPException(HTTP_400_BAD_REQUEST, "extension")],
          s |-> s]
    ELSE [f |-> [f EXCEPT !.pc = "L62", !.actual_size = 0], s |-> s]

\* the condition of lines 64-65
DeclaredTooLarge(f) ==
    /\ ~f.content_length.isNone
    /\ ParseInt(f.content_length.s) > MAX_FILE_SIZE

\* lines 62-69: the content-length header
DoCheckDeclared(f, s) ==
    IF DeclaredTooLarge(f)
    THEN [f |-> [f EXCEPT !.pc = "L103",
                          !.exc = HTTPException(HTTP_413_REQUEST_ENTITY_TOO_LARGE, "declared")],
          s |-> s]
    ELSE [f |-> [f EXCEPT !.pc = "L76"], s |-> s]

\* line 76: await file.file.seek(0, 2)
DoSeekEnd(f, s) ==
    AwaitCall(f, s, "seek_end", 1, SeekEndEffect(s), [f EXCEPT !.pc = "L85"])

\* line 85: actual_size = await file.file.tell()
DoTell(f, s) ==
    AwaitCall(f, s, "tell", 2, TellEffect(s),
              [f EXCEPT !.pc = "L87", !.actual_size = s.pos])

\* line 87: await file.file.seek(0)
DoSeekStart(f, s) ==
    AwaitCall(f, s, "seek_0", 3, SeekStartEffect(s), [f EXCEPT !.pc = "L95"])

\* faulty variant of DoCheckActual: sizes up to one byte over the limit pass
DoCheckActualOffByOne(f, s) ==
    IF f.actual_size > MAX_FILE_SIZE + 1
    THEN [f |-> [f EXCEPT !.pc = "L103",
                          !.exc = HTTPException(HTTP_413_REQUEST_ENTITY_TOO_LARGE, "actual")],
          s |-> s]
    ELSE [f |-> [f EXCEPT !.pc = "L103"], s |-> s]

\* lines 95-99: the probed size
DoCheckActual(f, s) ==
    IF f.actual_size > MAX_FILE_SIZE
    THEN [f |-> [f EXCEPT !.pc = "L103",
                          !.exc = HTTPException(HTTP_413_REQUEST_ENTITY_TOO_LARGE, "actual")],
          s |-> s]
    ELSE [f |-> [f EXCEPT !.pc = "L103"], s |-> s]

\* faulty variant of DoClose: close() is the last statement of the try block
\* and there is no finally, so an exception skips it
DoCloseAfterTry(f, s) ==
    IF f.exc # NoExc
    THEN [f |-> [f EXCEPT !.pc = "L105"], s |-> s]
    ELSE [f |-> [f EXCEPT !.pc = "L105",
                          !.exc = IF s.awaitable THEN f.exc ELSE Fault("TypeError", "close")],
          s |-> CloseEffect(Called(s, "close", f.id))]

\* lines 102-103, finally: await file.file.close().  close() is called; when
\* it hands back None the await raises TypeError, which replaces whatever
\* exception the try block was leaving with.
DoClose(f, s) ==
    [f |-> [f EXCEPT !.pc = "L105",
                     !.exc = IF s.awaitable THEN f.exc ELSE Fault("TypeError", "close")],
     s |-> CloseEffect(Called(s, "close", f.id))]

\* the end of the finally block: the pending exception leaves the handler,
\* or lines 105-109 return the response
DoFinish(f, s) ==
    IF f.exc # NoExc
    THEN [f |-> [f EXCEPT !.pc = "done", !.outcome = f.exc], s |-> s]
    ELSE [f |-> [f EXCEPT !.pc = "done",
                          !.outcome = [type |-> "return",
                                       status_code |-> HTTP_201_CREATED,
                                       site |-> "L105"],
                          !.response = [filename |-> f.filename.s,
                                        Size_in_Bytes |-> f.actual_size]],
          s |-> s]

\* the statement a frame is about to execute
Statement(f, s) ==
    CASE f.pc = "L53"  -> DoCheckExtension(f, s)
      [] f.pc = "L62"  -> DoCheckDeclared(f, s)
      [] f.pc = "L76"  -> DoSeekEnd(f, s)
      [] f.pc = "L85"  -> DoTell(f, s)
      [] f.pc = "L87"  -> DoSeekStart(f, s)
      [] f.pc = "L95"  -> DoCheckActual(f, s)
      [] f.pc = "L103" -> DoClose(f, s)
      [] f.pc = "L105" -> DoFinish(f, s)
      [] OTHER         -> [f |-> f, s |-> s]

-----------------------------------------------------------------------------
(* Requests as they arrive *)

Stems == { <<>>, <<"a","p","p">>, <<"B",".","l","o","g">> }

Tails == { <<".","t","x","t">>, <<".","T","X","T">>,
           <<".","l","o","g">>, <<".","L","O","G">>, <<".","L","o","g">>,
           <<".","l","o","g","f","i","l","e">>, <<".","L","O","G","F","I","L","E">>,
           <<".","d","a","t","a">>, <<".","D","A","T","A">>,
           <<".","p","n","g">>, <<".","l","o","g","s">>, <<".","t","x">>,
           <<"l","o","g">>, <<>> }

\* UploadFile.filename: None, or the text the client sent
Filenames ==
    {[isNone |-> TRUE, s |-> <<>>]}
        \cup {[isNone |-> FALSE, s |-> st \o tl] : st \in Stems, tl \in Tails}

DeclaredValues ==
    ((0 - Slack)..Slack) \cup ((MaxFileSizeValue - Slack)..(MaxFileSizeValue + Slack))

\* request.headers.get("content-length"): None, or the numeral sent
Headers ==
    {[isNone |-> TRUE, s |-> <<>>]}
        \cup {[isNone |-> FALSE, s |-> Numeral(v)] : v \in DeclaredValues}

SizeValues ==
    (0..Slack) \cup ((MaxFileSizeValue - Slack)..(MaxFileSizeValue + Slack))

PosValues(n) == {p \in {0, Slack, n - Slack, n} : 0 <= p /\ p <= n}

\* what happens to the request from outside while it probes: nothing, an I/O
\* fault raised by the at-th probing call, or cancellation of the task while
\* it is suspended in the at-th probing call (whose effect on the stream may
\* or may not have happened by then)
Undisturbed == [what |-> "ok", at |-> 0, applied |-> TRUE]

Envs ==
    {Undisturbed}
        \cup {[what |-> "fault", at |-> k, applied |-> FALSE] : k \in 1..3}
        \cup {[what |-> "cancel", at |-> k, applied |-> b] : k \in 1..3, b \in BOOLEAN}

\* a coroutine is suspended, and so can be cancelled, only in an await of an
\* awaitable; a plain file object is never reached past its first call
EnvsOf(awaitable) ==
    IF awaitable THEN Envs
    ELSE {Undisturbed, [what |-> "fault", at |-> 1, applied |-> FALSE]}

NewFrame(r, name, header, env) ==
    [id |-> r, pc |-> "L53", filename |-> name, content_length |-> header,
     file |-> r, actual_size |-> 0, exc |-> NoExc, outcome |-> NoExc,
     response |-> NoResponse, env |-> env]

NewStream(n, p, awaitable) ==
    [size |-> n, pos |-> p, closed |-> FALSE, awaitable |-> awaitable, log |-> <<>>]

\* the requests used where several run at once: one for each way a request
\* can end (returned, each rejection, a fault, a cancellation, a plain file)
AppLog == [isNone |-> FALSE, s |-> <<"a","p","p",".","L","O","G">>]
Png == [isNone |-> FALSE, s |-> <<"i",".","p","n","g">>]
NoHeader == [isNone |-> TRUE, s |-> <<>>]
OverHeader == [isNone |-> FALSE, s |-> Numeral(MaxFileSizeValue + 1)]

FewArrivals(r) ==
    { [f |-> NewFrame(r, AppLog, NoHeader, Undisturbed), s |-> NewStream(1, 1, TRUE)],
      [f |-> NewFrame(r, AppLog, NoHeader, Undisturbed),
       s |-> NewStream(MaxFileSizeValue + 1, 0, TRUE)],
      [f |-> NewFrame(r, AppLog, OverHeader, Undisturbed), s |-> NewStream(1, 0, TRUE)],
      [f |-> NewFrame(r, Png, NoHeader, Undisturbed), s |-> NewStream(1, 0, TRUE)],
      [f |-> NewFrame(r, AppLog, NoHeader, [what |-> "fault", at |-> 2, applied |-> FALSE]),
       s |-> NewStream(1, 0, TRUE)],
      [f |-> NewFrame(r, AppLog, NoHeader, [what |-> "cancel", at |-> 3, applied |-> FALSE]),
       s |-> NewStream(1, 1, TRUE)],
      [f |-> NewFrame(r, AppLog, NoHeader, Undisturbed), s |-> NewStream(1, 0, FALSE)],
      [f |-> NewFrame(r, AppLog, OverHeader, Undisturbed), s |-> NewStream(1, 0, FALSE)] }

\* a request that has not arrived
Idle(r) ==
    [f |-> [NewFrame(r, [isNone |-> TRUE, s |-> <<>>], [isNone |-> TRUE, s |-> <<>>],
                     Undisturbed) EXCEPT !.pc = "idle"],
     s |-> NewStream(0, 0, TRUE)]

-----------------------------------------------------------------------------
(* State machine *)

Started(arrived) ==
    /\ MAX_FILE_SIZE = MaxFileSizeValue
    /\ ALLOWED_EXTENSIONS = AllowedExtensionsValue
    /\ request0 = arrived
    /\ frame = [r \in Requests |-> arrived[r].f]
    /\ streams = [r \in Requests |-> arrived[r].s]

\* one request arrives; the others never do
Init ==
    \E name \in Filenames, header \in Headers, n \in SizeValues, aw \in BOOLEAN :
        \E p \in PosValues(n), env \in EnvsOf(aw) :
            Started([r \in Requests |->
                        IF r = 1
                        THEN [f |-> NewFrame(r, name, header, env),
                              s |-> NewStream(n, p, aw)]
                        ELSE Idle(r)])

\* every request has arrived, each with its own UploadFile
InitConcurrent ==
    \E few \in [Requests -> FewArrivals(1)] :
        Started([r \in Requests |->
                    [f |-> [few[r].f EXCEPT !.id = r, !.file = r], s |-> few[r].s]])

\* the outcome of one statement of request r is stored: the statement writes
\* r's frame and the stream r's frame names, and nothing else
Store(r, out) ==
    /\ frame' = [frame EXCEPT ![r] = out.f]
    /\ streams' = [streams EXCEPT ![StreamOf(frame[r])] = out.s]
    /\ UNCHANGED <<MAX_FILE_SIZE, ALLOWED_EXTENSIONS, request0>>

CheckExtension(r) ==
    /\ frame[r].pc = "L53"
    /\ Store(r, DoCheckExtension(frame[r], streams[StreamOf(frame[r])]))

CheckDeclared(r) ==
    /\ frame[r].pc = "L62"
    /\ Store(r, DoCheckDeclared(frame[r], streams[StreamOf(frame[r])]))

SeekEnd(r) ==
    /\ frame[r].pc = "L76"
    /\ Store(r, DoSeekEnd(frame[r], streams[StreamOf(frame[r])]))

Tell(r) ==
    /\ frame[r].pc = "L85"
    /\ Store(r, DoTell(frame[r], streams[StreamOf(frame[r])]))

SeekStart(r) ==
    /\ frame[r].pc = "L87"
    /\ Store(r, DoSeekStart(frame[r], streams[StreamOf(frame[r])]))

CheckActual(r) ==
    /\ frame[r].pc = "L95"
    /\ Store(r, DoCheckActual(frame[r], streams[StreamOf(frame[r])]))

Close(r) ==
    /\ frame[r].pc = "L103"
    /\ Store(r, DoClose(frame[r], streams[StreamOf(frame[r])]))

Finish(r) ==
    /\ frame[r].pc = "L105"
    /\ Store(r, DoFinish(frame[r], streams[StreamOf(frame[r])]))

Next ==
    \E r \in Requests :
        \/ CheckExtension(r)
        \/ CheckDeclared(r)
        \/ SeekEnd(r)
        \/ Tell(r)
        \/ SeekStart(r)
        \/ CheckActual(r)
        \/ Close(r)
        \/ Finish(r)

Spec == Init /\ [][Next]_vars

SpecConcurrent == InitConcurrent /\ [][Next]_vars

-----------------------------------------------------------------------------
(* Vocabulary of the properties *)

Done(r) == frame[r].pc = "done"

\* the stream of the UploadFile request r arrived with
Own(r) == streams[request0[r].f.file]

CallsOf(s, ops) == {i \in 1..Len(s.log) : s.log[i].op \in ops}

ProbeOps == <<"seek_end", "tell", "seek_0">>

Closes(s) == Cardinality(CallsOf(s, {"close"}))

Probed(s) == CallsOf(s, {"seek_end", "tell", "seek_0"}) # {}

Admitted(r) == Done(r) /\ frame[r].outcome.type = "return"

RejectedAs(r, code, kind) ==
    Done(r) /\ frame[r].outcome = HTTPException(code, kind)

\* two characters that differ at most in case
SameLetter(c, d) ==
    \/ c = d
    \/ \E i \in 1..Len(UpperLetters) : {c, d} = {UpperLetters[i], LowerLetters[i]}

\* text s ends with suffix e, whatever the case of its letters
HasSuffixIgnoringCase(s, e) ==
    /\ Len(e) <= Len(s)
    /\ \A i \in 1..Len(e) : SameLetter(s[Len(s) - Len(e) + i], e[i])

\* the filename is present, non-empty and carries an allowed extension
AllowedName(r) ==
    /\ ~request0[r].f.filename.isNone
    /\ request0[r].f.filename.s # <<>>
    /\ \E i \in 1..Len(AllowedExtensionsValue) :
           HasSuffixIgnoringCase(request0[r].f.filename.s, AllowedExtensionsValue[i])

Arrived(r) == request0[r].f.pc = "L53"

DeclaredPresent(r) == ~request0[r].f.content_length.isNone

Declared(r) == ParseInt(request0[r].f.content_length.s)

UpperOf(s) ==
    [i \in 1..Len(s) |->
        IF \E k \in 1..Len(LowerLetters) : LowerLetters[k] = s[i]
        THEN UpperLetters[CHOOSE k \in 1..Len(LowerLetters) : LowerLetters[k] = s[i]]
        ELSE s[i]]

LowerOf(s) ==
    [i \in 1..Len(s) |->
        IF \E k \in 1..Len(UpperLetters) : UpperLetters[k] = s[i]
        THEN LowerLetters[CHOOSE k \in 1..Len(UpperLetters) : UpperLetters[k] = s[i]]
        ELSE s[i]]

\* f + upper(s) and f + lower(s), for every stem f and allowed extension s
StemsWithAllowedSuffix ==
    UNION { {st \o UpperOf(AllowedExtensionsValue[i]),
             st \o LowerOf(AllowedExtensionsValue[i])} :
            st \in Stems, i \in 1..Len(AllowedExtensionsValue) }

\* the probing call the request's disturbance is aimed at has been made
Disturbed(r) ==
    /\ request0[r].f.env.what # "ok"
    /\ CallsOf(Own(r), {ProbeOps[request0[r].f.env.at]}) # {}

-----------------------------------------------------------------------------
(* C1: every finished upload, whatever its outcome, has had close called  *)
(* on its stream exactly once.                                             *)
C1_ClosedExactlyOnce ==
    \A r \in Requests : Done(r) => Closes(Own(r)) = 1

(* C2: an admitted upload reports a size no larger than the limit and     *)
(* carries a filename ending, case ignored, in an allowed extension.      *)
C2_AdmittedWithinPolicy ==
    \A r \in Requests :
        Admitted(r) =>
            /\ frame[r].response.Size_in_Bytes <= MaxFileSizeValue
            /\ \E i \in 1..Len(AllowedExtensionsValue) :
                   HasSuffixIgnoringCase(frame[r].response.filename,
                                         AllowedExtensionsValue[i])

C2_Witness ==
    \E r \in Requests :
        /\ Admitted(r)
        /\ frame[r].response.Size_in_Bytes = MaxFileSizeValue
        /\ DeclaredPresent(r)

(* C3: with an allowed extension and a declared length over the limit the *)
(* request ends with the 413 of the declared-length check, and no seek or *)
(* tell is ever made on its stream.                                        *)
C3_DeclaredFastPath ==
    \A r \in Requests :
        (Arrived(r) /\ AllowedName(r) /\ DeclaredPresent(r)
            /\ Declared(r) > MaxFileSizeValue) =>
            /\ ~Probed(Own(r))
            /\ Done(r) => RejectedAs(r, HTTP_413_REQUEST_ENTITY_TOO_LARGE, "declared")

(* C4: with an allowed extension, a declared length that is absent or     *)
(* passes, and a stream nothing disturbs, the request ends with the 413   *)
(* of the probed-size check when the stream holds more than the limit and *)
(* otherwise returns its filename and the stream's byte length.           *)
C4_ProbedLengthDecides ==
    \A r \in Requests :
        (Done(r) /\ AllowedName(r) /\ request0[r].f.env.what = "ok"
            /\ (DeclaredPresent(r) => Declared(r) <= MaxFileSizeValue)) =>
            IF request0[r].s.size > MaxFileSizeValue
            THEN RejectedAs(r, HTTP_413_REQUEST_ENTITY_TOO_LARGE, "actual")
            ELSE /\ Admitted(r)
                 /\ frame[r].response = [filename |-> request0[r].f.filename.s,
                                         Size_in_Bytes |-> request0[r].s.size]

(* C5: a filename that fails the extension check ends the request with    *)
(* the 400 of that check whatever the declared length and the stream's    *)
(* size are, and no seek or tell is made on the stream.                    *)
C5_ExtensionFirst ==
    \A r \in Requests :
        (Arrived(r) /\ ~AllowedName(r)) =>
            /\ ~Probed(Own(r))
            /\ Own(r).pos = request0[r].s.pos
            /\ Done(r) => RejectedAs(r, HTTP_400_BAD_REQUEST, "extension")

C5_Witness ==
    \E r \in Requests :
        /\ RejectedAs(r, HTTP_400_BAD_REQUEST, "extension")
        /\ DeclaredPresent(r) /\ Declared(r) > MaxFileSizeValue
        /\ request0[r].s.size > MaxFileSizeValue
        /\ ~request0[r].f.filename.isNone /\ request0[r].f.filename.s # <<>>

(* C6: once a probing call has raised an I/O fault or the request was     *)
(* cancelled in it, close is called on the stream before the exception    *)
(* leaves the handler, and the request ends neither admitted nor with one *)
(* of the three rejections.                                                *)
C6_FaultReachesCleanup ==
    \A r \in Requests :
        (Arrived(r) /\ Disturbed(r)) =>
            /\ frame[r].pc \in {"L103", "L105", "done"}
            /\ frame[r].pc \in {"L105", "done"} => Closes(Own(r)) = 1
            /\ Done(r) => frame[r].outcome.type \in {"OSError", "CancelledError", "TypeError"}

C6_Witness ==
    \E r \in Requests :
        /\ Done(r) /\ Disturbed(r)
        /\ request0[r].f.env.what = "cancel" /\ request0[r].f.env.at = 2
        /\ frame[r].outcome.type = "CancelledError"

(* C7: a present declared length d on a request with an allowed extension *)
(* lets the request go on to probing exactly when 0 <= d <= the limit,    *)
(* and any other d ends it with the 413 of the declared-length check.     *)
C7_DeclaredCheckSize ==
    \A r \in Requests :
        (Arrived(r) /\ AllowedName(r) /\ DeclaredPresent(r)
            /\ frame[r].pc \notin {"L53", "L62"}) =>
            IF 0 <= Declared(r) /\ Declared(r) <= MaxFileSizeValue
            THEN Probed(Own(r)) \/ frame[r].pc = "L76"
            ELSE /\ ~Probed(Own(r))
                 /\ Done(r) => RejectedAs(r, HTTP_413_REQUEST_ENTITY_TOO_LARGE, "declared")

(* C8: once an undisturbed request has left the probing statements, the   *)
(* size it measured is the stream's byte length, the cursor is at offset  *)
(* 0, and the stream holds the bytes it arrived with.                      *)
C8_ProbeMeasuresAndRewinds ==
    \A r \in Requests :
        (Arrived(r) /\ request0[r].f.env.what = "ok" /\ Probed(Own(r))
            /\ frame[r].pc \notin {"L76", "L85", "L87"}) =>
            /\ frame[r].actual_size = request0[r].s.size
            /\ Own(r).pos = 0
            /\ Own(r).size = request0[r].s.size

(* C9: a request gets past the extension check exactly when its filename  *)
(* is present, non-empty and ends, case ignored, in an allowed extension; *)
(* any stem followed by the upper-cased or lower-cased form of an allowed *)
(* extension gets past, everything else ends with the 400 of the check.   *)
C9_ExtensionCheck ==
    \A r \in Requests :
        (Arrived(r) /\ frame[r].pc # "L53") =>
            /\ AllowedName(r) <=> ~RejectedAs(r, HTTP_400_BAD_REQUEST, "extension")
            /\ (~request0[r].f.filename.isNone
                    /\ request0[r].f.filename.s \in StemsWithAllowedSuffix)
                   => ~RejectedAs(r, HTTP_400_BAD_REQUEST, "extension")

C9_Witness ==
    \E r \in Requests :
        /\ frame[r].pc = "L62"
        /\ request0[r].f.filename.s = <<"a","p","p",".","L","O","G","F","I","L","E">>

-----------------------------------------------------------------------------
(* Running alone *)

\* the states a request passes through when nothing else runs: its frame and
\* its stream after each of its statements
RECURSIVE Alone(_)
Alone(c) ==
    IF c.f.pc \in {"done", "idle"} THEN {c}
    ELSE {c} \cup Alone(Statement(c.f, c.s))

(* C10: under every interleaving of several requests, each request's      *)
(* frame and stream pass only through the states they pass through when   *)
(* the request runs alone (so its result and the calls on its stream are  *)
(* the same), every call on a stream is made by the request that owns it, *)
(* and the policy globals keep their values.                               *)
C10_NoInterference ==
    /\ \A r \in Requests :
           /\ [f |-> frame[r], s |-> Own(r)] \in Alone(request0[r])
           /\ \A i \in 1..Len(streams[r].log) : streams[r].log[i].by = r
    /\ MAX_FILE_SIZE = MaxFileSizeValue
    /\ ALLOWED_EXTENSIONS = AllowedExtensionsValue

C10_Witness ==
    /\ Admitted(1)
    /\ frame[2].pc = "L87"
    /\ Len(streams[1].log) = 4
    /\ Len(streams[2].log) = 2

====
